---------------------------- MODULE Spec2Model ----------------------------
(***************************************************************************)
(* visualize.py: read a CSV of (epoch seconds, value) rows, convert column *)
(* 0 to date/time, draw one line on a 3:1 figure and save <stem>.png.      *)
(*                                                                         *)
(* Every invocation of the script is a process p: its position in the      *)
(* script (pc), its Python variables (input_filename, df, wh, pyplot's     *)
(* current figure) and its exit status.  The file system is shared.        *)
(*                                                                         *)
(* Paths and file names are sequences of one-character strings.  A CSV     *)
(* file is a sequence of lines, a line a sequence of cells.  A numeric     *)
(* cell is the decimal number s + ns*10^-9 + q*0.25*10^-9 (whole seconds,  *)
(* nanoseconds, quarter nanoseconds); a text cell is any non-numeric       *)
(* string.  Empty cells and ragged lines are outside the inputs modelled.  *)
(***************************************************************************)
EXTENDS Integers, Sequences, FiniteSets, TLC

VARIABLES
    argv,            \* sys.argv[1:] of each invocation
    fs,              \* the file system: path -> content
    pc,              \* the statement each invocation is at
    exitStatus,      \* its exit status, -1 while it has not exited
    input_filename, df, wh,   \* its Python variables
    fig,             \* pyplot's current figure
    fd,              \* the output file savefig has open
    \* History, read by the properties only:
    err,             \* the kind of error the invocation died of
    fault,           \* whether the environment refused an open or a write
    written,         \* the paths the invocation opened for writing
    loaded,          \* the content read_csv found at the input path
    fsAtStart,       \* the file system when the invocation started
    exitOrder        \* the invocations in the order they exited

vars == <<argv, fs, pc, exitStatus, input_filename, df, wh, fig, fd,
          err, fault, written, loaded, fsAtStart, exitOrder>>

(* Bounds of the model. *)
MaxLines == 3
NChunks == 2

(* Two invocations: in Spec the second is a re-run after the first has     *)
(* exited, in SpecRace both run at the same time.                          *)
Procs == {1, 2}

---------------------------------------------------------------------------
(* Paths *)

P_j_csv   == <<"j", ".", "c", "s", "v">>
P_d_j_csv == <<"d", "/", "j", ".", "c", "s", "v">>
P_j_txt   == <<"j", ".", "t", "x", "t">>
P_j_b_csv == <<"j", ".", "b", ".", "c", "s", "v">>
P_j       == <<"j">>
P_dot_csv == <<".", "c", "s", "v">>
P_dx_j    == <<"d", ".", "x", "/", "j">>
P_j_png   == <<"j", ".", "p", "n", "g">>
P_j_b_png == <<"j", ".", "b", ".", "p", "n", "g">>
P_dot_csv_png == <<".", "c", "s", "v", ".", "p", "n", "g">>

InputPaths == {P_j_csv, P_d_j_csv, P_j_txt, P_j_b_csv, P_j, P_dot_csv,
               P_dx_j, P_j_png}
RacePaths == {P_j_csv, P_d_j_csv, P_j_txt, P_j_b_csv}
PngPaths == {P_j_png, P_j_b_png, P_dot_csv_png}

(* str.rfind, 1-based: 0 when c does not occur in s. *)
RFind(s, c) ==
    LET I == {i \in 1..Len(s) : s[i] = c}
    IN  IF I = {} THEN 0 ELSE CHOOSE i \in I : \A k \in I : k <= i

(* A naming bug: the directory part is kept (as with_suffix would). *)
NameKeepsDir(path) == path

(* pathlib: PurePath.name, the final path component. *)
Name(path) == SubSeq(path, RFind(path, "/") + 1, Len(path))

(* A naming bug: the extension is cut at the first dot, not the last. *)
StemAtFirstDot(path) ==
    LET name == Name(path)
        I == {i \in 2..Len(name) : name[i] = "."}
    IN  IF I = {} THEN name
        ELSE SubSeq(name, 1, (CHOOSE i \in I : \A k \in I : i <= k) - 1)

(* pathlib: PurePath.stem: the name up to its last dot, unless that dot is *)
(* the first or the last character of the name.                            *)
Stem(path) ==
    LET name == Name(path)
        i == RFind(name, ".")
    IN  IF 1 < i /\ i < Len(name) THEN SubSeq(name, 1, i - 1) ELSE name

(* str(input_filename.stem) + ".png" *)
OutName(path) == Stem(path) \o <<".", "p", "n", "g">>

---------------------------------------------------------------------------
(* Cells, lines, files *)

Num(s, ns, q) == [kind |-> "num", s |-> s, ns |-> ns, q |-> q]
Text == [kind |-> "text", s |-> 0, ns |-> 0, q |-> 0]
NaT == [kind |-> "NaT", s |-> 0, ns |-> 0, q |-> 0]

Col0Cells == {Text, Num(0, 0, 0), Num(0, 0, 1), Num(3600, 0, 0)}
Col1Cells == {Num(3, 0, 0), Num(5, 0, 0)}

Lines1 == {<<c>> : c \in Col0Cells}
Lines2 == {<<c, y>> : c \in Col0Cells, y \in Col1Cells} \cup {<<Text, Text>>}
Lines3 == {l \o <<IF l[2] = Text THEN Text ELSE Num(7, 0, 0)>> : l \in Lines2}

SeqsUpTo(S, n) == UNION {[1..k -> S] : k \in 0..n}

CsvTables ==
    SeqsUpTo(Lines1, MaxLines) \cup SeqsUpTo(Lines2, MaxLines)
        \cup SeqsUpTo(Lines3, MaxLines)

(* The file of the end-to-end example, shortened to two rows that are out  *)
(* of time order, and a second file that differs from it.                  *)
FileA == <<<<Text, Text>>, <<Num(3600, 0, 0), Num(3, 0, 0)>>,
           <<Num(0, 0, 0), Num(5, 0, 0)>>>>
FileB == <<<<Text, Text>>, <<Num(0, 0, 1), Num(5, 0, 0)>>>>

BlankImage == [w |-> 0, h |-> 0, xlabel |-> "", ylabel |-> "", trace |-> <<>>]
OldImage == [w |-> 640, h |-> 480, xlabel |-> "", ylabel |-> "", trace |-> <<>>]

Absent == [kind |-> "absent", lines |-> <<>>, chunks |-> <<>>]
Csv(lines) == [kind |-> "csv", lines |-> lines, chunks |-> <<>>]
Png(chunks) == [kind |-> "png", lines |-> <<>>, chunks |-> chunks]

(* The bytes of a complete image file, as the chunks it is written in. *)
Encoded(img) == [k \in 1..NChunks |-> [img |-> img, k |-> k]]
Hole == [img |-> BlankImage, k |-> 0]

Lookup(files, path) == IF path \in DOMAIN files THEN files[path] ELSE Absent

Store(files, path, content) ==
    [q \in DOMAIN files \cup {path} |->
        IF q = path THEN content ELSE files[q]]

---------------------------------------------------------------------------
(* Process state *)

NoDf == [columns |-> <<>>, rows |-> <<>>]
NoFig == [figsize |-> <<0, 0>>, xlabel |-> "", ylabel |-> "", lines |-> <<>>]
NoFd == [path |-> <<>>, pos |-> 0, created |-> FALSE, open |-> FALSE]

StartState(args, files) ==
    /\ argv = args
    /\ fs = files
    /\ pc = [p \in Procs |-> "idle"]
    /\ exitStatus = [p \in Procs |-> -1]
    /\ err = [p \in Procs |-> "none"]
    /\ input_filename = [p \in Procs |-> <<>>]
    /\ df = [p \in Procs |-> NoDf]
    /\ wh = [p \in Procs |-> <<0, 0>>]
    /\ fig = [p \in Procs |-> NoFig]
    /\ fd = [p \in Procs |-> NoFd]
    /\ fault = [p \in Procs |-> FALSE]
    /\ written = [p \in Procs |-> {}]
    /\ loaded = [p \in Procs |-> Absent]
    /\ fsAtStart = [p \in Procs |-> files]
    /\ exitOrder = <<>>

OldFiles(old, except) ==
    [q \in PngPaths \ except |-> IF old THEN Png(Encoded(OldImage)) ELSE Absent]

(* One input, run and then run again: no argument, or a path that is      *)
(* missing or holds a CSV table; the image files may exist beforehand.     *)
(* Every table is tried under the path j.csv, and every path with FileA.   *)
Init ==
    \E a \in {<<>>} \cup {<<q>> : q \in InputPaths},
       content \in {Absent} \cup {Csv(t) : t \in CsvTables},
       old \in BOOLEAN :
        /\ a = <<>> => content = Absent
        /\ a # <<>> => \/ a[1] = P_j_csv /\ ~old
                       \/ content \in {Absent, Csv(FileA)}
        /\ StartState([p \in Procs |-> a],
               IF a = <<>> THEN OldFiles(old, {})
               ELSE Store(OldFiles(old, {a[1]}), a[1], content))

(* The process dies of an unhandled exception: exit status 1. *)
Die(p, kind) ==
    /\ pc' = [pc EXCEPT ![p] = "exited"]
    /\ exitStatus' = [exitStatus EXCEPT ![p] = 1]
    /\ err' = [err EXCEPT ![p] = kind]
    /\ exitOrder' = Append(exitOrder, p)

Goto(p, label) ==
    /\ pc' = [pc EXCEPT ![p] = label]
    /\ UNCHANGED <<exitStatus, err, exitOrder>>

(* A fresh interpreter starts the script. *)
Launch(p) ==
    /\ pc[p] = "idle"
    /\ Goto(p, "argv")
    /\ fsAtStart' = [fsAtStart EXCEPT ![p] = fs]
    /\ UNCHANGED <<argv, fs, input_filename, df, wh, fig, fd, fault, written,
                   loaded>>

(* The invocations are started one after the other. *)
Start(p) ==
    /\ \A q \in Procs : q < p => pc[q] = "exited"
    /\ Launch(p)

(* The invocations are started without waiting for one another. *)
StartTogether(p) == Launch(p)

(* A bug: without an argument the script falls back to j.csv. *)
ParseArgsDefault(p) ==
    /\ pc[p] = "argv"
    /\ Goto(p, "read_csv")
    /\ input_filename' = [input_filename EXCEPT ![p] =
           IF Len(argv[p]) < 1 THEN P_j_csv ELSE argv[p][1]]
    /\ UNCHANGED <<argv, fs, df, wh, fig, fd, fault, written, loaded, fsAtStart>>

(* input_filename = Path(sys.argv[1]) *)
ParseArgs(p) ==
    /\ pc[p] = "argv"
    /\ IF Len(argv[p]) < 1
       THEN /\ Die(p, "usage")
            /\ UNCHANGED input_filename
       ELSE /\ Goto(p, "read_csv")
            /\ input_filename' = [input_filename EXCEPT ![p] = argv[p][1]]
    /\ UNCHANGED <<argv, fs, df, wh, fig, fd, fault, written, loaded, fsAtStart>>

(* A bug: header=None, every line is a row. *)
ParseCsvNoHeader(lines) == [columns |-> Head(lines), rows |-> lines]

(* pd.read_csv with header='infer': the first line gives the column names  *)
(* and every later line is a row.                                          *)
ParseCsv(lines) == [columns |-> Head(lines), rows |-> Tail(lines)]

(* df = pd.read_csv(input_filename) *)
ReadCsv(p) ==
    /\ pc[p] = "read_csv"
    /\ LET content == Lookup(fs, input_filename[p])
       IN  /\ loaded' = [loaded EXCEPT ![p] = content]
           /\ IF content.kind = "absent"
              THEN Die(p, "io") /\ UNCHANGED df
              ELSE IF content.kind # "csv" \/ content.lines = <<>>
              THEN Die(p, "parse") /\ UNCHANGED df
              ELSE /\ Goto(p, "to_datetime")
                   /\ df' = [df EXCEPT ![p] = ParseCsv(content.lines)]
    /\ UNCHANGED <<argv, fs, input_filename, wh, fig, fd, fault, written,
                   fsAtStart>>

(* A bug: errors='coerce', a value that is no number becomes NaT. *)
ConvertibleCoerce(cell) == TRUE

(* to_datetime(errors='raise'): a value that is no number raises. *)
Convertible(cell) == cell.kind = "num"

(* A bug: the time of day is dropped, the value becomes a date. *)
CastFromUnitDay(cell) ==
    IF cell.kind = "num"
    THEN [kind |-> "datetime", s |-> (cell.s \div 86400) * 86400, ns |-> 0,
          q |-> 0]
    ELSE NaT

(* unit='s' at nanosecond resolution: what is below a nanosecond is lost. *)
CastFromUnit(cell) ==
    IF cell.kind = "num"
    THEN [kind |-> "datetime", s |-> cell.s, ns |-> cell.ns, q |-> 0]
    ELSE NaT

(* df[df.columns[0]] = pd.to_datetime(df[df.columns[0]], unit='s') *)
ToDatetime(p) ==
    /\ pc[p] = "to_datetime"
    /\ LET rows == df[p].rows
       IN  IF \E k \in 1..Len(rows) : ~Convertible(rows[k][1])
           THEN Die(p, "parse") /\ UNCHANGED df
           ELSE /\ Goto(p, "figaspect")
                /\ df' = [df EXCEPT ![p].rows =
                       [k \in 1..Len(rows) |->
                           [rows[k] EXCEPT ![1] = CastFromUnit(rows[k][1])]]]
    /\ UNCHANGED <<argv, fs, input_filename, wh, fig, fd, fault, written,
                   loaded, fsAtStart>>

Min(a, b) == IF a < b THEN a ELSE b
Max(a, b) == IF a < b THEN b ELSE a

(* figaspect's fitting of a size, in tenths of an inch: scaled up until it *)
(* is at least 4 x 2 in, scaled down until it is at most 16 x 16 in, then  *)
(* clipped to these limits.                                                *)
Fitted(w0, h0) ==
    LET up == IF w0 >= 40 /\ h0 >= 20 THEN <<w0, h0>>
              ELSE IF w0 * 20 <= h0 * 40 THEN <<40, (h0 * 40) \div w0>>
              ELSE <<(w0 * 20) \div h0, 20>>
        down == IF up[1] <= 160 /\ up[2] <= 160 THEN up
                ELSE IF up[1] >= up[2] THEN <<160, (up[2] * 160) \div up[1]>>
                ELSE <<(up[1] * 160) \div up[2], 160>>
    IN  <<Max(40, Min(160, down[1])), Max(20, Min(160, down[2]))>>

(* A bug: the ratio is taken as width/height. *)
FigaspectWidthOverHeight(num, den) == Fitted((48 * num) \div den, 48)

(* matplotlib.figure.figaspect for a number num/den = height/width: the    *)
(* default figure height 4.8 in, the width from the ratio, the size fitted.*)
Figaspect(num, den) == Fitted((48 * den) \div num, 48)

(* w, h = plt.figaspect(1/3) *)
FigaspectStep(p) ==
    /\ pc[p] = "figaspect"
    /\ Goto(p, "figure")
    /\ wh' = [wh EXCEPT ![p] = Figaspect(1, 3)]
    /\ UNCHANGED <<argv, fs, input_filename, df, fig, fd, fault, written,
                   loaded, fsAtStart>>

(* plt.figure(figsize=(w, h)) *)
Figure(p) ==
    /\ pc[p] = "figure"
    /\ Goto(p, "xlabel")
    /\ fig' = [fig EXCEPT ![p] = [NoFig EXCEPT !.figsize = wh[p]]]
    /\ UNCHANGED <<argv, fs, input_filename, df, wh, fd, fault, written,
                   loaded, fsAtStart>>

(* plt.xlabel('Date/Time') *)
Xlabel(p) ==
    /\ pc[p] = "xlabel"
    /\ Goto(p, "ylabel")
    /\ fig' = [fig EXCEPT ![p].xlabel = "Date/Time"]
    /\ UNCHANGED <<argv, fs, input_filename, df, wh, fd, fault, written,
                   loaded, fsAtStart>>

(* plt.ylabel('Concurrent GH action jobs') *)
Ylabel(p) ==
    /\ pc[p] = "ylabel"
    /\ Goto(p, "plot")
    /\ fig' = [fig EXCEPT ![p].ylabel = "Concurrent GH action jobs"]
    /\ UNCHANGED <<argv, fs, input_filename, df, wh, fd, fault, written,
                   loaded, fsAtStart>>

(* Date/time values compare by seconds, then nanoseconds. *)
DtLess(a, b) == a.s < b.s \/ (a.s = b.s /\ a.ns < b.ns)

RECURSIVE InsertByTime(_, _)
InsertByTime(r, rows) ==
    IF rows = <<>> THEN <<r>>
    ELSE IF DtLess(r[1], Head(rows)[1]) THEN <<r>> \o rows
    ELSE <<Head(rows)>> \o InsertByTime(r, Tail(rows))

RECURSIVE SortByTime(_)
SortByTime(rows) ==
    IF rows = <<>> THEN <<>>
    ELSE InsertByTime(Head(rows), SortByTime(Tail(rows)))

(* A bug: the rows are sorted by time before they are drawn. *)
VerticesSorted(rows) ==
    LET r == SortByTime(rows)
    IN  [k \in 1..Len(r) |-> <<r[k][1], r[k][2]>>]

(* The vertices of the line plt.plot(x, y) draws: (x[k], y[k]) in order. *)
Vertices(rows) == [k \in 1..Len(rows) |-> <<rows[k][1], rows[k][2]>>]

(* plt.plot(df[df.columns[0]], df[df.columns[1]]) *)
Plot(p) ==
    /\ pc[p] = "plot"
    /\ IF Len(df[p].columns) < 2
       THEN Die(p, "parse") /\ UNCHANGED fig
       ELSE /\ Goto(p, "savefig")
            /\ fig' = [fig EXCEPT ![p].lines = Append(@, Vertices(df[p].rows))]
    /\ UNCHANGED <<argv, fs, input_filename, df, wh, fd, fault, written,
                   loaded, fsAtStart>>

(* The PNG savefig renders at the default 100 dpi. *)
Render(f) ==
    [w |-> f.figsize[1] * 10, h |-> f.figsize[2] * 10,
     xlabel |-> f.xlabel, ylabel |-> f.ylabel,
     trace |-> IF f.lines = <<>> THEN <<>> ELSE f.lines[Len(f.lines)]]

(* A bug: the file is opened for exclusive creation (mode "xb"). *)
OpenExclusive(exists, permitted) == permitted /\ ~exists

(* open(path, "wb"): an existing file is opened as readily as a new one,   *)
(* when the permissions of the file and its directory allow it.            *)
OpenAllowed(exists, permitted) == permitted

(* A bug: the file is opened without emptying it (mode "r+b"). *)
Kept(content) == Png(content.chunks)

(* open(path, "wb") empties an existing file and creates a missing one. *)
Truncated(content) == Png(<<>>)

(* plt.savefig(...): the figure is rendered and the file opened. *)
SavefigOpen(p) ==
    /\ pc[p] = "savefig"
    /\ LET path == OutName(input_filename[p])
           exists == Lookup(fs, path).kind # "absent"
       IN  \E permitted \in BOOLEAN :
             /\ fault' = [fault EXCEPT ![p] = ~permitted]
             /\ IF ~OpenAllowed(exists, permitted)
                THEN Die(p, "write") /\ UNCHANGED <<fs, fd, written>>
                ELSE /\ Goto(p, "write")
                     /\ fs' = Store(fs, path, Truncated(Lookup(fs, path)))
                     /\ fd' = [fd EXCEPT ![p] = [path |-> path, pos |-> 0,
                                    created |-> ~exists, open |-> TRUE]]
                     /\ written' = [written EXCEPT ![p] = @ \cup {path}]
    /\ UNCHANGED <<argv, input_filename, df, wh, fig, loaded, fsAtStart>>

(* The chunks of a file after one chunk is written at offset pos. *)
WriteAt(chunks, pos, chunk) ==
    [k \in 1..Max(Len(chunks), pos + 1) |->
        IF k = pos + 1 THEN chunk
        ELSE IF k <= Len(chunks) THEN chunks[k] ELSE Hole]

(* savefig writes the next chunk of the image at its own file offset; the  *)
(* write can fail (disk full), and the imaging library then may or may not *)
(* remove a file this call created.                                        *)
SavefigWrite(p) ==
    /\ pc[p] = "write"
    /\ LET path == fd[p].path
           cur == Lookup(fs, path)
           chunk == Encoded(Render(fig[p]))[fd[p].pos + 1]
       IN  \E ok \in BOOLEAN, remove \in BOOLEAN :
             /\ fault' = [fault EXCEPT ![p] = ~ok]
             /\ IF ok
                THEN /\ fs' = IF cur.kind = "absent"
                              THEN fs   \* unlinked meanwhile: the data is lost
                              ELSE Store(fs, path,
                                       Png(WriteAt(cur.chunks, fd[p].pos, chunk)))
                     /\ fd' = [fd EXCEPT ![p].pos = @ + 1]
                     /\ Goto(p, IF fd[p].pos + 1 = NChunks
                                THEN "close" ELSE "write")
                ELSE /\ fs' = IF remove /\ fd[p].created
                              THEN Store(fs, path, Absent) ELSE fs
                     /\ fd' = [fd EXCEPT ![p].open = FALSE]
                     /\ Die(p, "write")
    /\ UNCHANGED <<argv, input_filename, df, wh, fig, written, loaded, fsAtStart>>

(* The file is closed and the script ends: exit status 0. *)
Close(p) ==
    /\ pc[p] = "close"
    /\ pc' = [pc EXCEPT ![p] = "exited"]
    /\ exitStatus' = [exitStatus EXCEPT ![p] = 0]
    /\ exitOrder' = Append(exitOrder, p)
    /\ fd' = [fd EXCEPT ![p].open = FALSE]
    /\ UNCHANGED <<argv, fs, err, input_filename, df, wh, fig, fault, written,
                   loaded, fsAtStart>>

Steps(p) ==
    \/ ParseArgs(p)
    \/ ReadCsv(p)
    \/ ToDatetime(p)
    \/ FigaspectStep(p)
    \/ Figure(p)
    \/ Xlabel(p)
    \/ Ylabel(p)
    \/ Plot(p)
    \/ SavefigOpen(p)
    \/ SavefigWrite(p)
    \/ Close(p)

Next == \E p \in Procs : Start(p) \/ Steps(p)

Spec == Init /\ [][Next]_vars

(* Two invocations at the same time, each with its own argument; the files *)
(* j.csv and j.b.csv hold FileA, d/j.csv and j.txt hold FileB.             *)
InitRace ==
    \E args \in [Procs -> {<<>>} \cup {<<q>> : q \in RacePaths}],
       old \in BOOLEAN :
        StartState(args,
            [q \in RacePaths \cup PngPaths |->
                IF q \in {P_j_csv, P_j_b_csv} THEN Csv(FileA)
                ELSE IF q \in RacePaths THEN Csv(FileB)
                ELSE IF old THEN Png(Encoded(OldImage)) ELSE Absent])

NextRace == \E p \in Procs : StartTogether(p) \/ Steps(p)

SpecRace == InitRace /\ [][NextRace]_vars

---------------------------------------------------------------------------
(* Properties *)

Exited(p) == pc[p] = "exited"
Plotted(p) == fig[p].lines # <<>>
Trace(p) == fig[p].lines[1]
NoLaterRun(p) == \A q \in Procs : q > p => pc[q] = "idle"
FsSame(f, g) == \A q \in DOMAIN f \cup DOMAIN g : Lookup(f, q) = Lookup(g, q)
Complete(p) == Png(Encoded(Render(fig[p])))
Count(seq, x) == Cardinality({k \in DOMAIN seq : seq[k] = x})

(* name is the last component of path. *)
IsBaseName(name, path) ==
    /\ \A k \in 1..Len(name) : name[k] # "/"
    /\ \E i \in 0..Len(path) :
         /\ name = SubSeq(path, i + 1, Len(path))
         /\ i = 0 \/ path[i] = "/"

(* The final extension of name starts at i: a dot that is neither the      *)
(* first nor the last character, with no dot after it.                     *)
ExtensionAt(name, i) ==
    /\ 1 < i /\ i < Len(name)
    /\ name[i] = "."
    /\ \A k \in (i + 1)..Len(name) : name[k] # "."

(* s is name with its final extension, if it has one, removed. *)
IsStemOf(s, name) ==
    \/ \E i \in 1..Len(name) : ExtensionAt(name, i) /\ s = SubSeq(name, 1, i - 1)
    \/ (~\E i \in 1..Len(name) : ExtensionAt(name, i)) /\ s = name

(* The names <stem>.png of an input path. *)
OutputNamesFor(path) ==
    {SubSeq(path, i, j) \o <<".", "p", "n", "g">> :
        <<i, j>> \in {ij \in (1..Len(path) + 1) \X (0..Len(path)) :
            /\ IsBaseName(SubSeq(path, ij[1], Len(path)), path)
            /\ IsStemOf(SubSeq(path, ij[1], ij[2]), SubSeq(path, ij[1], Len(path)))}}

(* A table of two columns, a header line and at least one row below it,   *)
(* whose column 0 holds numbers only.                                      *)
ValidTwoColumn(content) ==
    /\ content.kind = "csv"
    /\ Len(content.lines) >= 2
    /\ \A k \in 1..Len(content.lines) : Len(content.lines[k]) = 2
    /\ \A k \in 2..Len(content.lines) : content.lines[k][1].kind = "num"

(* C1: a run on a valid two-column CSV input that the environment does not *)
(* fail ends with exit status 0 having written exactly one file, named     *)
(* <stem>.png with no directory part, <stem> being the input's base name   *)
(* without its final extension; every other file is as it was.             *)
C1_OneFileNamedAfterStem ==
    \A p \in Procs :
        Exited(p) /\ ValidTwoColumn(loaded[p]) /\ ~fault[p] =>
            /\ exitStatus[p] = 0
            /\ \E out \in OutputNamesFor(argv[p][1]) :
                 /\ written[p] = {out}
                 /\ \A q \in DOMAIN fs \cup DOMAIN fsAtStart[p] :
                      q # out => Lookup(fs, q) = Lookup(fsAtStart[p], q)
                 /\ NoLaterRun(p) => Lookup(fs, out) = Complete(p)

C1_Witness ==
    /\ Exited(1) /\ exitStatus[1] = 0 /\ pc[2] = "idle"
    /\ argv[1] = <<P_j_b_csv>>
    /\ written[1] = {P_j_b_png}
    /\ Lookup(fsAtStart[1], P_j_b_png) = Absent
    /\ Lookup(fs, P_j_b_png) = Complete(1)

(* C2: without an argument the run fails at its first statement: it never  *)
(* reaches the load, convert, plot or save steps, exits with status 1 and  *)
(* leaves the file system as it was.                                       *)
C2_NoArgumentFailsFirst ==
    \A p \in Procs :
        argv[p] = <<>> =>
            /\ pc[p] \in {"idle", "argv", "exited"}
            /\ df[p] = NoDf /\ fig[p] = NoFig /\ written[p] = {}
            /\ Exited(p) =>
                 exitStatus[p] = 1 /\ err[p] = "usage" /\ FsSame(fs, fsAtStart[p])

C2_Witness ==
    Exited(1) /\ argv[1] = <<>> /\ exitStatus[1] = 1 /\ err[1] = "usage"

(* The input read is a table with a parse error: no line at all, fewer     *)
(* than two columns, or a non-numeric value in column 0 below the header.  *)
HasParseError(content) ==
    /\ content.kind = "csv"
    /\ \/ content.lines = <<>>
       \/ Len(Head(content.lines)) < 2
       \/ \E k \in 2..Len(content.lines) : content.lines[k][1].kind # "num"

(* C3: a run on an input with a parse error never reaches the save step,   *)
(* creates no file and exits with a non-zero status.                       *)
C3_ParseErrorNoOutput ==
    \A p \in Procs :
        HasParseError(loaded[p]) =>
            /\ pc[p] \notin {"savefig", "write", "close"}
            /\ written[p] = {}
            /\ exitStatus[p] # 0
            /\ Exited(p) =>
                 exitStatus[p] = 1 /\ err[p] = "parse" /\ FsSame(fs, fsAtStart[p])

C3_Witness ==
    /\ Exited(1) /\ exitStatus[1] = 1 /\ err[1] = "parse"
    /\ Len(df[1].columns) = 2
    /\ Len(df[1].rows) = 2
    /\ df[1].rows[2][1] = Text
    /\ FsSame(fs, fsAtStart[1])

(* C4 as stated: at the end of every run either the complete image is      *)
(* written and the status is 0, or the status is non-zero and the file     *)
(* system is as it was before the run.                                     *)
C4_AllOrNothing ==
    \A p \in Procs :
        Exited(p) /\ NoLaterRun(p) =>
            \/ /\ exitStatus[p] = 0
               /\ Lookup(fs, OutName(input_filename[p])) = Complete(p)
            \/ /\ exitStatus[p] # 0
               /\ FsSame(fs, fsAtStart[p])

(* C4, amended: all or nothing unless a write fails after the output file  *)
(* was opened; the file then holds the chunks written so far (none: it is  *)
(* empty), or is gone if this run had created it.                          *)
C4_AllOrNothingUntilOpen ==
    \A p \in Procs :
        Exited(p) /\ NoLaterRun(p) =>
            \/ /\ exitStatus[p] = 0
               /\ Lookup(fs, OutName(input_filename[p])) = Complete(p)
            \/ /\ exitStatus[p] = 1
               /\ written[p] = {}
               /\ FsSame(fs, fsAtStart[p])
            \/ /\ exitStatus[p] = 1
               /\ err[p] = "write" /\ fault[p]
               /\ written[p] = {fd[p].path}
               /\ fd[p].pos < NChunks
               /\ \/ Lookup(fs, fd[p].path) =
                        Png(SubSeq(Encoded(Render(fig[p])), 1, fd[p].pos))
                  \/ fd[p].created /\ Lookup(fs, fd[p].path) = Absent
               /\ \A q \in DOMAIN fs \cup DOMAIN fsAtStart[p] :
                    q # fd[p].path => Lookup(fs, q) = Lookup(fsAtStart[p], q)

C4_Witness ==
    /\ Exited(1) /\ pc[2] = "idle"
    /\ exitStatus[1] = 1 /\ err[1] = "write"
    /\ fd[1].pos = 1 /\ ~fd[1].created
    /\ Lookup(fsAtStart[1], fd[1].path) = Png(Encoded(OldImage))
    /\ Lookup(fs, fd[1].path) = Png(<<Encoded(Render(fig[1]))[1]>>)

(* The rows of a file whose header row is optional: the first line is a    *)
(* header when its column 0 is no number.                                  *)
DataRows(lines) ==
    IF lines # <<>> /\ Head(lines)[1].kind # "num" THEN Tail(lines) ELSE lines

(* The point a line of the file is plotted at. *)
Point(line) == <<CastFromUnit(line[1]), line[2]>>

(* C5 as stated: with or without a header row, the trace has one point per *)
(* data row of the file.                                                   *)
C5_HeaderOptional ==
    \A p \in Procs :
        Plotted(p) =>
            LET rows == DataRows(loaded[p].lines)
            IN  /\ Len(Trace(p)) = Len(rows)
                /\ \A k \in 1..Len(rows) :
                     Count(Trace(p), Point(rows[k])) =
                         Count([i \in 1..Len(rows) |-> Point(rows[i])],
                               Point(rows[k]))

(* C5, amended: the first line is always taken as the header; the trace    *)
(* has one point per line after the first, none dropped and none added.    *)
C5_FirstLineIsHeader ==
    \A p \in Procs :
        Plotted(p) =>
            LET rows == Tail(loaded[p].lines)
            IN  /\ Len(Trace(p)) = Len(rows)
                /\ \A k \in 1..Len(rows) :
                     Count(Trace(p), Point(rows[k])) =
                         Count([i \in 1..Len(rows) |-> Point(rows[i])],
                               Point(rows[k]))

C5_Witness ==
    /\ Exited(1) /\ exitStatus[1] = 0
    /\ Len(loaded[1].lines) = 3
    /\ loaded[1].lines[1][1].kind = "num"
    /\ Len(Trace(1)) = 2

(* Numbers compare by seconds, nanoseconds, quarter nanoseconds. *)
EpochLess(a, b) ==
    \/ a.s < b.s
    \/ a.s = b.s /\ a.ns < b.ns
    \/ a.s = b.s /\ a.ns = b.ns /\ a.q < b.q

WholeSeconds(a) == a.ns = 0 /\ a.q = 0

(* C6 as stated: a smaller epoch value is plotted at a strictly earlier    *)
(* date/time, equal values at equal date/times.                            *)
C6_StrictlyMonotone ==
    \A p \in Procs :
        Plotted(p) =>
            LET rows == Tail(loaded[p].lines)
            IN  \A i, j \in 1..Len(rows) :
                  /\ EpochLess(rows[i][1], rows[j][1]) =>
                       DtLess(Trace(p)[i][1], Trace(p)[j][1])
                  /\ rows[i][1] = rows[j][1] => Trace(p)[i][1] = Trace(p)[j][1]

(* C6, amended: a smaller epoch value is never plotted at a later          *)
(* date/time, and at a strictly earlier one when both are whole seconds;   *)
(* equal values are plotted at equal date/times.                           *)
C6_Monotone ==
    \A p \in Procs :
        Plotted(p) =>
            LET rows == Tail(loaded[p].lines)
            IN  \A i, j \in 1..Len(rows) :
                  /\ EpochLess(rows[i][1], rows[j][1]) =>
                       /\ ~DtLess(Trace(p)[j][1], Trace(p)[i][1])
                       /\ WholeSeconds(rows[i][1]) /\ WholeSeconds(rows[j][1]) =>
                            DtLess(Trace(p)[i][1], Trace(p)[j][1])
                  /\ rows[i][1] = rows[j][1] => Trace(p)[i][1] = Trace(p)[j][1]

C6_Witness ==
    /\ Plotted(1) /\ Len(Trace(1)) = 2
    /\ loaded[1].lines[2][1] = Num(0, 0, 0)
    /\ loaded[1].lines[3][1] = Num(0, 0, 1)
    /\ Trace(1)[1][1] = Trace(1)[2][1]

(* C7: the k-th vertex of the trace is the k-th line below the header,     *)
(* whatever the order of the times; the column-1 values along the trace    *)
(* are those of the file, in file order.                                   *)
C7_TraceInFileOrder ==
    \A p \in Procs :
        Plotted(p) =>
            LET rows == Tail(loaded[p].lines)
            IN  /\ DOMAIN Trace(p) = DOMAIN rows
                /\ \A k \in DOMAIN rows :
                     /\ Trace(p)[k][1].s = rows[k][1].s
                     /\ Trace(p)[k][1].ns = rows[k][1].ns
                     /\ Trace(p)[k][2] = rows[k][2]

C7_Witness ==
    /\ Exited(1) /\ exitStatus[1] = 0
    /\ Len(Trace(1)) = 2
    /\ DtLess(Trace(1)[2][1], Trace(1)[1][1])
    /\ Trace(1)[1][2] # Trace(1)[2][2]
    /\ Lookup(fs, P_j_png).chunks[1].img.trace = Trace(1)

(* C8: a run and a re-run that read the same input, neither failed by the  *)
(* environment, end alike: the same exit status and error, the same output *)
(* file name, the same figure (points and axis labels), the same image.    *)
C8_RerunAlike ==
    (/\ Exited(1) /\ Exited(2)
     /\ argv[1] = argv[2] /\ loaded[1] = loaded[2]
     /\ ~fault[1] /\ ~fault[2]) =>
        /\ exitStatus[1] = exitStatus[2]
        /\ err[1] = err[2]
        /\ written[1] = written[2]
        /\ df[1] = df[2]
        /\ fig[1] = fig[2]
        /\ exitStatus[2] = 0 =>
             /\ fig[2].xlabel = "Date/Time"
             /\ fig[2].ylabel = "Concurrent GH action jobs"
             /\ Lookup(fs, fd[2].path) = Complete(1)

C8_Witness ==
    /\ Exited(1) /\ Exited(2)
    /\ exitStatus[1] = 0 /\ exitStatus[2] = 0
    /\ loaded[1] = loaded[2]
    /\ Len(Trace(2)) = 2
    /\ Lookup(fsAtStart[1], fd[1].path) = Absent
    /\ Lookup(fsAtStart[2], fd[2].path) = Complete(1)

(* C9: invocations at the same time, with nothing but the file system      *)
(* between them.  Inputs of the same stem are written to the same file; an *)
(* open of the output file fails only when the environment refuses it,     *)
(* never because the file exists or another invocation has it open; when   *)
(* both end with status 0 on the same file, every chunk of the file is     *)
(* that chunk of one of the two images (not always of the same one: see    *)
(* the witness).                                                           *)
C9_SharedOutputUnlocked ==
    \A p, q \in Procs :
        /\ (/\ written[p] # {} /\ written[q] # {}
            /\ OutputNamesFor(argv[p][1]) \cap OutputNamesFor(argv[q][1]) # {})
              => written[p] = written[q]
        /\ err[p] = "write" /\ written[p] = {} => fault[p]
        /\ (/\ p # q /\ exitStatus[p] = 0 /\ exitStatus[q] = 0
            /\ written[p] = written[q])
              => LET file == Lookup(fs, fd[p].path)
                 IN  /\ file.kind = "png"
                     /\ Len(file.chunks) = NChunks
                     /\ \A k \in 1..NChunks :
                          file.chunks[k] \in {Complete(p).chunks[k],
                                              Complete(q).chunks[k]}

(* Both invocations end with status 0 and the file is the complete image   *)
(* of neither: not of the one that exited last, nor of the other.          *)
C9_Witness ==
    /\ Len(exitOrder) = 2
    /\ exitStatus[1] = 0 /\ exitStatus[2] = 0
    /\ argv[1] = <<P_j_csv>> /\ argv[2] = <<P_d_j_csv>>
    /\ fd[1].path = fd[2].path
    /\ ~fd[2].created
    /\ Lookup(fs, fd[1].path) # Complete(exitOrder[2])
    /\ Lookup(fs, fd[1].path) # Complete(exitOrder[1])

(* C10: from plt.figure on the figure is 3 times as wide as high, and so   *)
(* is every image the script writes, whatever the rows.                    *)
C10_ThreeToOne ==
    /\ \A p \in Procs :
         pc[p] \in {"xlabel", "ylabel", "plot", "savefig", "write", "close"}
           \/ (Exited(p) /\ exitStatus[p] = 0) =>
             /\ fig[p].figsize[2] > 0
             /\ fig[p].figsize[1] = 3 * fig[p].figsize[2]
    /\ \A path \in DOMAIN fs :
         \A k \in 1..Len(fs[path].chunks) :
            LET img == fs[path].chunks[k].img
            IN  img \notin {OldImage, BlankImage} => img.h > 0 /\ img.w = 3 * img.h

C10_Witness ==
    /\ Exited(1) /\ exitStatus[1] = 0
    /\ Len(Trace(1)) = 2
    /\ Lookup(fs, fd[1].path) = Complete(1)
    /\ Complete(1).chunks[1].img.w = 1440
    /\ Complete(1).chunks[1].img.h = 480


===========================================================================
